---- MODULE Spec2Model ----
(***************************************************************************)
(* Image-Tracker (src/app.py): a Flask application that lets an admin      *)
(* session generate a PNG + clickable PDF pair, records a hit row for      *)
(* every tracked access (/click, /dl_pdf) and shows the rows on /logs.     *)
(*                                                                         *)
(* State: the session cookie of each client, the files of the output       *)
(* directory, the hits table with its AUTOINCREMENT counter, the position   *)
(* and locals of every request that is being handled by a server thread,   *)
(* and the last response produced.  The rate limiter keeps its windows in  *)
(* its own memory store and ages them by the wall clock: whether the       *)
(* window of a request's key is used up is an input of the request.        *)
(* Handlers that wait on the network or the disk between two effects       *)
(* (clickable_redirect, dl_pdf, POST /make) are split at those points, so  *)
(* that requests of other threads interleave with them.                    *)
(***************************************************************************)
EXTENDS Integers, Sequences, FiniteSets, TLC

(* ------------------------------ bounds --------------------------------- *)
MaxHits == 2
MaxDownloads == 1

(* The server threads that handle requests (app.run serves threaded).      *)
Threads == {"t1", "t2"}

(* --------------------------- configuration ----------------------------- *)
ADMIN_PASS == "admin"
OUTDIR == "generated"
DB_FILE == <<"hits", "db">>
Passwords == {ADMIN_PASS, "guess", ""}
(* The clients, each with its own session cookie.                          *)
Sessions == {"s1", "s2"}
Methods == {"GET", "POST"}

NULL == "NULL"
anonymous == "anonymous"

(* shortuuid.uuid()[:8]: a fresh random reference, collisions unchecked.   *)
DocRefs == {"d1", "d2"}

(* A file name is the sequence of its dot-separated parts; the <name> and  *)
(* <pdfname> converters of the routes accept any text without a slash.     *)
fname(doc_ref) == <<"document_" \o doc_ref, "png">>
pdf_name(doc_ref) == <<"document_" \o doc_ref, "pdf">>
DotDot == <<"", "", "">>
Dot == <<"", "">>
Names == {fname("d1"), pdf_name("d1"), pdf_name("d2"), DB_FILE, DotDot, Dot, <<"nosuch", "pdf">>}

(* ------------------------------ paths ---------------------------------- *)
(* os.path.join(OUTDIR, name) for a name without a slash, as the sequence  *)
(* of its components.                                                      *)
join(dir, name) == <<dir, name>>

(* The directory entry a path denotes once "." and ".." are followed:      *)
(* <<>> is the working directory that holds OUTDIR.                        *)
Resolve(path) ==
    IF path[2] = DotDot THEN <<>>
    ELSE IF path[2] = Dot THEN <<path[1]>>
    ELSE path

Inside(path) == Resolve(path) # <<>> /\ Resolve(path)[1] = OUTDIR

isdir(path) == Len(Resolve(path)) < 2

exists(path, files) == isdir(path) \/ Resolve(path)[2] \in files

(* --------------------------- geolocation ------------------------------- *)
(* What requests.get(...).json() does: raises (connection error, timeout,  *)
(* body that is no JSON) or returns the decoded reply.                     *)
GeoReplies ==
    { [kind |-> "exception", status |-> NULL],
      [kind |-> "json", status |-> "fail"],
      [kind |-> "json", status |-> "success"] }

NoGeo == [lat |-> NULL, lon |-> NULL, city |-> NULL, region |-> NULL, country |-> NULL]
Place == [lat |-> "48.85", lon |-> "2.35", city |-> "Paris", region |-> "IDF", country |-> "France"]

(* Mutant: the status field of the reply is not looked at.                 *)
geo_ip_unchecked(reply) ==
    IF reply.kind = "json" THEN Place ELSE NoGeo

geo_ip(reply) ==
    IF reply.kind = "json" /\ reply.status = "success" THEN Place ELSE NoGeo

(* ------------------------------ state ---------------------------------- *)
VARIABLES
    session,     \* session[s]: the "admin" entry of client s's session cookie
    outdir,      \* the file names present in OUTDIR
    hits,        \* the rows of table hits
    seq,         \* sqlite_sequence of hits: the largest id ever given
    pc,          \* pc[w]: where thread w stands in its handler
    loc,         \* loc[w]: the request and the locals of the handler thread w runs
    resp,        \* the last response produced, with the request it answers
    arrivals,    \* history: the inserted rows, in the order of their commits
    tracked,     \* history: per doc_ref, the /click and /dl_pdf handlers that answered
    downloads    \* history: number of files served by /download_generated

vars == <<session, outdir, hits, seq, pc, loc, resp, arrivals, tracked, downloads>>

(* A request: the route's arguments, the form, and what the handler read   *)
(* on entry (admin: session.get("admin"); lookup: how the geolocation      *)
(* call ended).                                                            *)
NoName == <<>>
NoReq == [s |-> NULL, method |-> "GET", password |-> NULL, doc_ref |-> NULL,
          name |-> NoName, admin |-> FALSE, lookup |-> NULL]

NoLoc == [req |-> NoReq, ip |-> NULL, geo |-> NoGeo, recorded |-> FALSE]

(* recorded: the handler has run insert_hit; rows: the rows it rendered.   *)
Response(route, status, to, req, recorded, rows) ==
    [route |-> route, status |-> status, to |-> to, req |-> req,
     recorded |-> recorded, rows |-> rows]

NoResp == Response(NULL, 0, NULL, NoReq, FALSE, <<>>)

(* Limiter(default_limits=["2000/day","200/hour"]) and, on /click,         *)
(* limiter.limit("60/minute"): a request beyond the limit is answered 429  *)
(* before the view function runs.                                          *)
RateLimitExceeded(route, req) == Response(route, 429, NULL, req, FALSE, <<>>)

(* init_db() after os.makedirs(OUTDIR): the database file is created       *)
(* inside OUTDIR with an empty hits table.                                 *)
init_db ==
    /\ outdir = {DB_FILE}
    /\ hits = {}
    /\ seq = 0

Init ==
    /\ init_db
    /\ session = [s \in Sessions |-> FALSE]
    /\ pc = [w \in Threads |-> "idle"]
    /\ loc = [w \in Threads |-> NoLoc]
    /\ resp = NoResp
    /\ arrivals = <<>>
    /\ tracked = [d \in DocRefs |-> 0]
    /\ downloads = 0

(* ---------------------------- hit recorder ----------------------------- *)
(* Mutant: one row per doc_ref, replaced by the latest access.             *)
insert_hit_upsert(doc_ref, user_id, ip, ua, ts, geo) ==
    LET row == [id |-> seq + 1, doc_ref |-> doc_ref, user_id |-> user_id, ip |-> ip,
                ua |-> ua, ts |-> ts, lat |-> geo.lat, lon |-> geo.lon,
                city |-> geo.city, region |-> geo.region, country |-> geo.country]
    IN  /\ hits' = {q \in hits : q.doc_ref # doc_ref} \cup {row}
        /\ seq' = seq + 1
        /\ arrivals' = Append(arrivals, row)

(* INSERT INTO hits ...: AUTOINCREMENT gives the row the id after the      *)
(* largest one ever given; ts is the wall clock read at the call.          *)
insert_hit(doc_ref, user_id, ip, ua, ts, geo) ==
    LET row == [id |-> seq + 1, doc_ref |-> doc_ref, user_id |-> user_id, ip |-> ip,
                ua |-> ua, ts |-> ts, lat |-> geo.lat, lon |-> geo.lon,
                city |-> geo.city, region |-> geo.region, country |-> geo.country]
    IN  /\ hits' = hits \cup {row}
        /\ seq' = seq + 1
        /\ arrivals' = Append(arrivals, row)

(* ORDER BY id DESC: the rows from the largest id down.                    *)
RECURSIVE OrderByIdDesc(_)
OrderByIdDesc(rows) ==
    IF rows = {} THEN <<>>
    ELSE LET top == CHOOSE r \in rows : \A q \in rows : q.id <= r.id
         IN  <<top>> \o OrderByIdDesc(rows \ {top})

(* Mutant: ORDER BY ts DESC.                                               *)
RECURSIVE OrderByTsDesc(_)
OrderByTsDesc(rows) ==
    IF rows = {} THEN <<>>
    ELSE LET top == CHOOSE r \in rows : \A q \in rows : q.ts <= r.ts
         IN  <<top>> \o OrderByTsDesc(rows \ {top})

fetch_hits_by_ts(table, limit) ==
    LET sorted == OrderByTsDesc(table)
    IN  IF limit < 0 \/ limit >= Len(sorted) THEN sorted
        ELSE SubSeq(sorted, 1, limit)

(* SELECT * FROM hits ORDER BY id DESC LIMIT ?  (a negative LIMIT is no    *)
(* limit in SQLite).                                                       *)
fetch_hits(table, limit) ==
    LET sorted == OrderByIdDesc(table)
    IN  IF limit < 0 \/ limit >= Len(sorted) THEN sorted
        ELSE SubSeq(sorted, 1, limit)

DefaultLimit == 1000

(* --------------------------- request headers --------------------------- *)
remote_addr == "10.0.0.9"
UserAgent == "Mozilla"
(* X-Forwarded-For as the list of its comma-separated entries, NoHeader    *)
(* when the header is absent.                                              *)
NoHeader == <<>>
XffHeaders == {NoHeader, <<"203.0.113.7", "10.0.0.1">>}

(* request.headers.get("X-Forwarded-For", remote_addr).split(",")[0]       *)
ClientIp(xff) == IF xff = NoHeader THEN remote_addr ELSE xff[1]

(* session.get("user_id", "anonymous"): no route stores a user_id.         *)
user_id(s) == anonymous

(* The wall clock of datetime.utcnow(): it may be set back between calls.  *)
Times == {1, 2}

(* ------------------------------ files ---------------------------------- *)
SaveOutcomes == {"ok", "error_removed", "error_partial"}
PdfOutcomes == {"ok", "draw_error", "save_error"}
Uploads == {"none", "valid", "corrupt"}

(* Mutant: the image is encoded but never put on disk.                     *)
save_png_unwritten(files, name, outcome) ==
    [ok |-> outcome = "ok",
     files |-> IF outcome = "error_partial" THEN files \cup {name} ELSE files]

(* base_image.save(fpath, "PNG"): on an error the file that was being      *)
(* written is removed or left behind truncated.                            *)
save_png(files, name, outcome) ==
    [ok |-> outcome = "ok",
     files |-> IF outcome = "error_removed" THEN files ELSE files \cup {name}]

(* create_pdf_with_clickable_image: ImageReader needs the image on disk;   *)
(* the PDF file is opened by c.save() only.                                *)
create_pdf_with_clickable_image(files, image_name, pdfname, outcome) ==
    IF image_name \notin files \/ outcome = "draw_error"
    THEN [ok |-> FALSE, files |-> files]
    ELSE [ok |-> outcome = "ok", files |-> files \cup {pdfname}]

(* send_file(path, ...): the path is opened; a directory cannot be.        *)
send_file(path) == IF isdir(path) THEN 500 ELSE 200

(* ------------------------------ routes --------------------------------- *)
login(s, method, password, admit) ==
    LET req == [NoReq EXCEPT !.s = s, !.method = method, !.password = password,
                             !.admin = session[s]]
    IN  /\ IF ~admit THEN
                /\ resp' = RateLimitExceeded("login", req)
                /\ UNCHANGED session
           ELSE IF method = "POST" /\ password = ADMIN_PASS THEN
                /\ session' = [session EXCEPT ![s] = TRUE]
                /\ resp' = Response("login", 302, "make", req, FALSE, <<>>)
           ELSE
                /\ resp' = Response("login", 200, NULL, req, FALSE, <<>>)
                /\ UNCHANGED session
        /\ UNCHANGED <<outdir, hits, seq, pc, loc, arrivals, tracked, downloads>>

logout(s, admit) ==
    LET req == [NoReq EXCEPT !.s = s, !.admin = session[s]]
    IN  /\ IF ~admit THEN
                /\ resp' = RateLimitExceeded("logout", req)
                /\ UNCHANGED session
           ELSE
                /\ session' = [session EXCEPT ![s] = FALSE]
                /\ resp' = Response("logout", 302, "index", req, FALSE, <<>>)
        /\ UNCHANGED <<outdir, hits, seq, pc, loc, arrivals, tracked, downloads>>

(* Mutant: the admin flag of the session is not tested.                    *)
make_unchecked(w, s, method, upload, doc_ref, admit) ==
    LET req == [NoReq EXCEPT !.s = s, !.method = method, !.admin = session[s]]
    IN  /\ pc[w] = "idle"
        /\ IF ~admit THEN
                /\ resp' = RateLimitExceeded("make", req)
                /\ UNCHANGED <<pc, loc>>
           ELSE IF method = "GET" THEN
                /\ resp' = Response("make", 200, NULL, req, FALSE, <<>>)
                /\ UNCHANGED <<pc, loc>>
           ELSE IF upload = "corrupt" THEN
                /\ resp' = Response("make", 500, NULL, req, FALSE, <<>>)
                /\ UNCHANGED <<pc, loc>>
           ELSE
                /\ pc' = [pc EXCEPT ![w] = "make_save"]
                /\ loc' = [loc EXCEPT ![w] = [NoLoc EXCEPT !.req = [req EXCEPT !.doc_ref = doc_ref]]]
                /\ UNCHANGED resp
        /\ UNCHANGED <<session, outdir, hits, seq, arrivals, tracked, downloads>>

(* /make up to the choice of doc_ref: the session check, the method, the   *)
(* decoding of the upload.                                                 *)
make(w, s, method, upload, doc_ref, admit) ==
    LET req == [NoReq EXCEPT !.s = s, !.method = method, !.admin = session[s]]
    IN  /\ pc[w] = "idle"
        /\ IF ~admit THEN
                /\ resp' = RateLimitExceeded("make", req)
                /\ UNCHANGED <<pc, loc>>
           ELSE IF ~session[s] THEN
                /\ resp' = Response("make", 302, "login", req, FALSE, <<>>)
                /\ UNCHANGED <<pc, loc>>
           ELSE IF method = "GET" THEN
                /\ resp' = Response("make", 200, NULL, req, FALSE, <<>>)
                /\ UNCHANGED <<pc, loc>>
           ELSE IF upload = "corrupt" THEN
                /\ resp' = Response("make", 500, NULL, req, FALSE, <<>>)
                /\ UNCHANGED <<pc, loc>>
           ELSE
                /\ pc' = [pc EXCEPT ![w] = "make_save"]
                /\ loc' = [loc EXCEPT ![w] = [NoLoc EXCEPT !.req = [req EXCEPT !.doc_ref = doc_ref]]]
                /\ UNCHANGED resp
        /\ UNCHANGED <<session, outdir, hits, seq, arrivals, tracked, downloads>>

(* /make: base_image.save(fpath, "PNG").                                   *)
make_save(w, outcome) ==
    /\ pc[w] = "make_save"
    /\ LET png == fname(loc[w].req.doc_ref)
           r == save_png(outdir, png, outcome)
       IN  /\ outdir' = r.files
           /\ IF r.ok THEN
                   /\ pc' = [pc EXCEPT ![w] = "make_pdf"]
                   /\ UNCHANGED <<loc, resp>>
              ELSE
                   /\ pc' = [pc EXCEPT ![w] = "idle"]
                   /\ loc' = [loc EXCEPT ![w] = NoLoc]
                   /\ resp' = Response("make", 500, NULL, [loc[w].req EXCEPT !.name = png], FALSE, <<>>)
    /\ UNCHANGED <<session, hits, seq, arrivals, tracked, downloads>>

(* Mutant: a failed PDF build removes both files of the document.          *)
make_pdf_cleanup(w, outcome) ==
    /\ pc[w] = "make_pdf"
    /\ LET pdf == pdf_name(loc[w].req.doc_ref)
           png == fname(loc[w].req.doc_ref)
           r == create_pdf_with_clickable_image(outdir, png, pdf, outcome)
       IN  /\ outdir' = IF r.ok THEN r.files ELSE outdir \ {png, pdf}
           /\ resp' = Response("make", IF r.ok THEN 200 ELSE 500, NULL,
                               [loc[w].req EXCEPT !.name = pdf], FALSE, <<>>)
    /\ pc' = [pc EXCEPT ![w] = "idle"]
    /\ loc' = [loc EXCEPT ![w] = NoLoc]
    /\ UNCHANGED <<session, hits, seq, arrivals, tracked, downloads>>

(* /make: create_pdf_with_clickable_image(fpath, pdf_path, url=url) and    *)
(* the made_file.html page.                                                *)
make_pdf(w, outcome) ==
    /\ pc[w] = "make_pdf"
    /\ LET pdf == pdf_name(loc[w].req.doc_ref)
           r == create_pdf_with_clickable_image(outdir, fname(loc[w].req.doc_ref), pdf, outcome)
       IN  /\ outdir' = r.files
           /\ resp' = Response("make", IF r.ok THEN 200 ELSE 500, NULL,
                               [loc[w].req EXCEPT !.name = pdf], FALSE, <<>>)
    /\ pc' = [pc EXCEPT ![w] = "idle"]
    /\ loc' = [loc EXCEPT ![w] = NoLoc]
    /\ UNCHANGED <<session, hits, seq, arrivals, tracked, downloads>>

(* /click/<doc_ref> up to the return of geo_ip(ip).                        *)
clickable_redirect(w, s, doc_ref, xff, reply, admit) ==
    LET req == [NoReq EXCEPT !.s = s, !.doc_ref = doc_ref, !.admin = session[s]]
    IN  /\ pc[w] = "idle"
        /\ IF ~admit THEN
                /\ resp' = RateLimitExceeded("click", req)
                /\ UNCHANGED <<pc, loc>>
           ELSE
                /\ pc' = [pc EXCEPT ![w] = "click_insert"]
                /\ loc' = [loc EXCEPT ![w] =
                             [req |-> [req EXCEPT !.lookup = IF reply.kind = "json" THEN reply.status ELSE reply.kind],
                              ip |-> ClientIp(xff), geo |-> geo_ip(reply), recorded |-> FALSE]]
                /\ UNCHANGED resp
        /\ UNCHANGED <<session, outdir, hits, seq, arrivals, tracked, downloads>>

(* /click: insert_hit(doc_ref, user_id, ip, ua, lat, lon, city, ...).      *)
click_insert(w, ts) ==
    /\ pc[w] = "click_insert"
    /\ Cardinality(hits) < MaxHits
    /\ insert_hit(loc[w].req.doc_ref, user_id(loc[w].req.s), loc[w].ip, UserAgent, ts, loc[w].geo)
    /\ pc' = [pc EXCEPT ![w] = "click_respond"]
    /\ loc' = [loc EXCEPT ![w].recorded = TRUE]
    /\ UNCHANGED <<session, outdir, resp, tracked, downloads>>

(* /click: return redirect("https://your-site.com/thank-you").             *)
click_respond(w) ==
    /\ pc[w] = "click_respond"
    /\ resp' = Response("click", 302, "thank-you", loc[w].req, loc[w].recorded, <<>>)
    /\ tracked' = [tracked EXCEPT ![loc[w].req.doc_ref] = @ + 1]
    /\ pc' = [pc EXCEPT ![w] = "idle"]
    /\ loc' = [loc EXCEPT ![w] = NoLoc]
    /\ UNCHANGED <<session, outdir, hits, seq, arrivals, downloads>>

(* /dl_pdf/<doc_ref>/<pdfname> up to the return of geo_ip(ip).             *)
dl_pdf(w, s, doc_ref, pdfname, xff, reply, admit) ==
    LET req == [NoReq EXCEPT !.s = s, !.doc_ref = doc_ref, !.name = pdfname, !.admin = session[s]]
    IN  /\ pc[w] = "idle"
        /\ IF ~admit THEN
                /\ resp' = RateLimitExceeded("dl_pdf", req)
                /\ UNCHANGED <<pc, loc>>
           ELSE
                /\ pc' = [pc EXCEPT ![w] = "dl_insert"]
                /\ loc' = [loc EXCEPT ![w] =
                             [req |-> [req EXCEPT !.lookup = IF reply.kind = "json" THEN reply.status ELSE reply.kind],
                              ip |-> ClientIp(xff), geo |-> geo_ip(reply), recorded |-> FALSE]]
                /\ UNCHANGED resp
        /\ UNCHANGED <<session, outdir, hits, seq, arrivals, tracked, downloads>>

(* Mutant: the hit is recorded only for a file that exists.                *)
dl_insert_if_exists(w, ts) ==
    /\ pc[w] = "dl_insert"
    /\ Cardinality(hits) < MaxHits
    /\ IF exists(join(OUTDIR, loc[w].req.name), outdir)
       THEN /\ insert_hit(loc[w].req.doc_ref, user_id(loc[w].req.s), loc[w].ip, UserAgent, ts, loc[w].geo)
            /\ loc' = [loc EXCEPT ![w].recorded = TRUE]
       ELSE UNCHANGED <<hits, seq, arrivals, loc>>
    /\ pc' = [pc EXCEPT ![w] = "dl_respond"]
    /\ UNCHANGED <<session, outdir, resp, tracked, downloads>>

(* /dl_pdf: insert_hit(...).                                               *)
dl_insert(w, ts) ==
    /\ pc[w] = "dl_insert"
    /\ Cardinality(hits) < MaxHits
    /\ insert_hit(loc[w].req.doc_ref, user_id(loc[w].req.s), loc[w].ip, UserAgent, ts, loc[w].geo)
    /\ pc' = [pc EXCEPT ![w] = "dl_respond"]
    /\ loc' = [loc EXCEPT ![w].recorded = TRUE]
    /\ UNCHANGED <<session, outdir, resp, tracked, downloads>>

(* /dl_pdf: the os.path.exists test, then "Not found", 404 or send_file.   *)
dl_respond(w) ==
    /\ pc[w] = "dl_respond"
    /\ LET path == join(OUTDIR, loc[w].req.name)
           status == IF ~exists(path, outdir) THEN 404 ELSE send_file(path)
       IN  resp' = Response("dl_pdf", status, NULL, loc[w].req, loc[w].recorded, <<>>)
    /\ tracked' = [tracked EXCEPT ![loc[w].req.doc_ref] = @ + 1]
    /\ pc' = [pc EXCEPT ![w] = "idle"]
    /\ loc' = [loc EXCEPT ![w] = NoLoc]
    /\ UNCHANGED <<session, outdir, hits, seq, arrivals, downloads>>

(* Mutant: the download records a hit like the tracked routes do.          *)
download_generated_tracked(s, name, admit) ==
    LET req == [NoReq EXCEPT !.s = s, !.name = name, !.admin = session[s]]
        path == join(OUTDIR, name)
        status == IF ~admit THEN 429
                  ELSE IF ~exists(path, outdir) THEN 404
                  ELSE send_file(path)
    IN  /\ status = 200 => downloads < MaxDownloads
        /\ resp' = IF ~admit THEN RateLimitExceeded("download_generated", req)
                   ELSE Response("download_generated", status, NULL, req, admit, <<>>)
        /\ downloads' = IF status = 200 THEN downloads + 1 ELSE downloads
        /\ IF admit
           THEN /\ Cardinality(hits) < MaxHits
                /\ insert_hit(NULL, user_id(s), remote_addr, UserAgent, 1, NoGeo)
           ELSE UNCHANGED <<hits, seq, arrivals>>
        /\ UNCHANGED <<session, outdir, pc, loc, tracked>>

(* /download_generated/<name>.                                             *)
download_generated(s, name, admit) ==
    LET req == [NoReq EXCEPT !.s = s, !.name = name, !.admin = session[s]]
        path == join(OUTDIR, name)
        status == IF ~admit THEN 429
                  ELSE IF ~exists(path, outdir) THEN 404
                  ELSE send_file(path)
    IN  /\ status = 200 => downloads < MaxDownloads
        /\ resp' = IF ~admit THEN RateLimitExceeded("download_generated", req)
                   ELSE Response("download_generated", status, NULL, req, FALSE, <<>>)
        /\ downloads' = IF status = 200 THEN downloads + 1 ELSE downloads
        /\ UNCHANGED <<session, outdir, hits, seq, pc, loc, arrivals, tracked>>

(* /logs.                                                                  *)
logs(s, admit) ==
    LET req == [NoReq EXCEPT !.s = s, !.admin = session[s]]
    IN  /\ resp' = IF ~admit THEN RateLimitExceeded("logs", req)
                   ELSE IF ~session[s] THEN Response("logs", 302, "login", req, FALSE, <<>>)
                   ELSE Response("logs", 200, NULL, req, FALSE, fetch_hits(hits, DefaultLimit))
        /\ UNCHANGED <<session, outdir, hits, seq, pc, loc, arrivals, tracked, downloads>>

(* ------------------------- specifications ------------------------------ *)
(* Spec: authentication, generation and downloads, one request thread.     *)
Fail == [kind |-> "exception", status |-> NULL]
Clients == {"s1"}

Next ==
    \/ \E s \in Clients, m \in Methods, p \in Passwords, a \in BOOLEAN : login(s, m, p, a)
    \/ \E s \in Clients, a \in BOOLEAN : logout(s, a)
    \/ \E s \in Clients, m \in Methods, u \in Uploads, d \in DocRefs, a \in BOOLEAN :
          make("t1", s, m, u, d, a)
    \/ \E o \in SaveOutcomes : make_save("t1", o)
    \/ \E o \in PdfOutcomes : make_pdf("t1", o)
    \/ \E s \in Clients, n \in Names, a \in BOOLEAN : dl_pdf("t1", s, "d1", n, NoHeader, Fail, a)
    \/ dl_insert("t1", 1)
    \/ dl_respond("t1")
    \/ \E s \in Clients, n \in Names, a \in BOOLEAN : download_generated(s, n, a)
    \/ \E s \in Clients, a \in BOOLEAN : logs(s, a)

Spec == Init /\ [][Next]_vars

(* SpecTrack: the tracked deliveries, one request thread.                  *)
TrackNames == {pdf_name("d1"), pdf_name("d2")}

NextTrack ==
    \/ \E s \in Clients, a \in BOOLEAN : login(s, "POST", ADMIN_PASS, a)
    \/ \E s \in Clients, a \in BOOLEAN : make("t1", s, "POST", "valid", "d1", a)
    \/ make_save("t1", "ok")
    \/ make_pdf("t1", "ok")
    \/ \E s \in Clients, d \in DocRefs, g \in GeoReplies, a \in BOOLEAN :
          clickable_redirect("t1", s, d, NoHeader, g, a)
    \/ click_insert("t1", 1)
    \/ click_respond("t1")
    \/ \E s \in Clients, d \in DocRefs, n \in TrackNames, g \in GeoReplies, a \in BOOLEAN :
          dl_pdf("t1", s, d, n, NoHeader, g, a)
    \/ dl_insert("t1", 1)
    \/ dl_respond("t1")
    \/ \E s \in Clients, n \in TrackNames, a \in BOOLEAN : download_generated(s, n, a)

SpecTrack == Init /\ [][NextTrack]_vars

(* SpecConc: tracked requests handled by two threads at once, and the log  *)
(* view.                                                                   *)
NextConc ==
    \/ \E s \in Clients, p \in Passwords, a \in BOOLEAN : login(s, "POST", p, a)
    \/ \E w \in Threads, s \in Sessions, x \in XffHeaders, a \in BOOLEAN :
          clickable_redirect(w, s, "d1", x, Fail, a)
    \/ \E w \in Threads, t \in Times : click_insert(w, t)
    \/ \E w \in Threads : click_respond(w)
    \/ \E w \in Threads, s \in Clients, a \in BOOLEAN :
          dl_pdf(w, s, "d1", pdf_name("d1"), NoHeader, Fail, a)
    \/ \E w \in Threads, t \in Times : dl_insert(w, t)
    \/ \E w \in Threads : dl_respond(w)
    \/ \E s \in Clients, a \in BOOLEAN : logs(s, a)

SpecConc == Init /\ [][NextConc]_vars

(* SpecAuth: two clients, the login, and the routes behind the admin flag. *)
NextAuth ==
    \/ \E s \in Sessions, m \in Methods, p \in Passwords, a \in BOOLEAN : login(s, m, p, a)
    \/ \E s \in Sessions, a \in BOOLEAN : logout(s, a)
    \/ \E s \in Sessions, m \in Methods, u \in {"none", "corrupt"}, a \in BOOLEAN :
          make("t1", s, m, u, "d1", a)
    \/ \E o \in {"ok", "error_removed"} : make_save("t1", o)
    \/ \E o \in {"ok", "save_error"} : make_pdf("t1", o)
    \/ \E a \in BOOLEAN : clickable_redirect("t1", "s2", "d1", NoHeader, Fail, a)
    \/ click_insert("t1", 1)
    \/ click_respond("t1")
    \/ \E s \in Sessions, a \in BOOLEAN : logs(s, a)

SpecAuth == Init /\ [][NextAuth]_vars

(* ============================== claims ================================= *)
Rows(d) == {r \in hits : r.doc_ref = d}
Recorded == {"click_respond", "dl_respond"}
AtRespond(d) == {w \in Threads : pc[w] \in Recorded /\ loc[w].req.doc_ref = d}
AllIdle == \A w \in Threads : pc[w] = "idle"
TotalTracked == tracked["d1"] + tracked["d2"]
NullGeo(r) ==
    r.lat = NULL /\ r.lon = NULL /\ r.city = NULL /\ r.region = NULL /\ r.country = NULL
LookupFailed(req) == req.lookup \in {"exception", "fail"}

(* C1, as stated: every request to /click/{doc_ref} and to                 *)
(* /dl_pdf/{doc_ref}/{pdfname} has appended a row carrying its doc_ref     *)
(* when it is answered.                                                    *)
C1_EveryRequestAppendsRow ==
    resp.route \in {"click", "dl_pdf"} =>
        /\ resp.recorded
        /\ Rows(resp.req.doc_ref) # {}

(* C1, amended: every /click and /dl_pdf request that the rate limiter     *)
(* admits appends exactly one row carrying its doc_ref, and the row is in  *)
(* the table before the response (redirect, file, 404) is produced; a      *)
(* request the limiter answers with 429 appends none.                      *)
C1_AdmittedRequestAppendsRow ==
    /\ \A d \in DocRefs : Cardinality(Rows(d)) = tracked[d] + Cardinality(AtRespond(d))
    /\ \A w \in Threads : pc[w] \in Recorded => loc[w].recorded
    /\ resp.route \in {"click", "dl_pdf"} =>
          IF resp.status = 429 THEN ~resp.recorded
          ELSE resp.recorded /\ Rows(resp.req.doc_ref) # {}

(* C1 witness: a /dl_pdf request for a file that is absent was answered    *)
(* 404 and its row is in the table.                                        *)
C1_Witness ==
    /\ resp.route = "dl_pdf" /\ resp.status = 404 /\ resp.recorded
    /\ Rows(resp.req.doc_ref) # {}

(* C2, as stated: with no delivery in progress, the number of hit rows is  *)
(* the number of completed accesses of /click, /dl_pdf and                 *)
(* /download_generated.                                                    *)
C2_RowsEqualAllDeliveries ==
    AllIdle => Cardinality(hits) = TotalTracked + downloads

(* C2, amended: a hit row is created once per access of /click and of      *)
(* /dl_pdf, before its response; /download_generated serves the artifact   *)
(* without recording a hit.  So the number of rows is the number of        *)
(* answered /click and /dl_pdf accesses plus those that have inserted and  *)
(* not yet answered, whatever the number of downloads.                     *)
C2_RowsEqualTrackedDeliveries ==
    /\ [](Cardinality(hits) =
            TotalTracked + Cardinality({w \in Threads : pc[w] \in Recorded}))
    /\ [][downloads' # downloads => hits' = hits]_vars

(* C2 witness: a file was served by /download_generated, tracked accesses  *)
(* were answered, and the rows count the tracked accesses only.            *)
C2_Witness ==
    /\ AllIdle /\ downloads > 0 /\ TotalTracked > 0
    /\ Cardinality(hits) = TotalTracked

(* C5: a failed geolocation lookup (exception, timeout, non-success        *)
(* status) makes geo_ip return five absent fields without raising; the     *)
(* request records its hit with the five fields null and gets the          *)
(* response it would get otherwise (the redirect; the file or 404).        *)
C5_GeoFailureDegrades ==
    /\ \A w \in Threads :
          LookupFailed(loc[w].req) =>
             /\ loc[w].geo = NoGeo
             /\ pc[w] \in Recorded =>
                   \E r \in Rows(loc[w].req.doc_ref) : NullGeo(r) /\ r.ip = loc[w].ip
    /\ LookupFailed(resp.req) =>
          /\ resp.recorded
          /\ \E r \in Rows(resp.req.doc_ref) : NullGeo(r)
          /\ resp.route = "click" => resp.status = 302 /\ resp.to = "thank-you"
          /\ resp.route = "dl_pdf" =>
                LET path == join(OUTDIR, resp.req.name)
                IN  /\ resp.status \in {404, send_file(path)}
                    /\ resp.status # 404 => exists(path, outdir)

(* C5 witness: a click whose lookup raised was redirected and its row has  *)
(* no location.                                                            *)
C5_Witness ==
    /\ resp.route = "click" /\ resp.req.lookup = "exception" /\ resp.status = 302
    /\ \E r \in Rows(resp.req.doc_ref) : NullGeo(r)

Guarded == {"make", "logs"}
Generating == {"make_save", "make_pdf"}

(* C3, as stated: a request to /make or /logs from a session whose admin   *)
(* flag is not set is redirected to login and is shown no hit rows.        *)
C3_UnauthenticatedIsRedirected ==
    resp.route \in Guarded /\ ~resp.req.admin =>
        resp.status = 302 /\ resp.to = "login" /\ resp.rows = <<>>

(* C3, amended: a request to /make or /logs from a session whose admin     *)
(* flag is not set is redirected to login, unless the rate limiter         *)
(* answers it with 429; either way it writes no PNG or PDF and is shown    *)
(* no hit rows.  The flag is set only by a POST /login whose password is   *)
(* the admin password, a wrong password leaves it as it was, and /logout   *)
(* clears it.                                                              *)
C3_UnauthenticatedGetsNothing ==
    /\ [](resp.route \in Guarded /\ ~resp.req.admin =>
            /\ resp.rows = <<>>
            /\ \/ resp.status = 302 /\ resp.to = "login"
               \/ resp.status = 429)
    /\ [](\A w \in Threads : pc[w] \in Generating => loc[w].req.admin)
    /\ [](resp.route = "logout" /\ resp.status = 302 => ~session[resp.req.s])
    /\ [][outdir' # outdir =>
            \E w \in Threads : pc[w] \in Generating /\ loc[w].req.admin]_vars
    /\ [][\A s \in Sessions : session'[s] # session[s] =>
            /\ resp'.req.s = s
            /\ IF session'[s]
               THEN /\ resp'.route = "login" /\ resp'.req.method = "POST"
                    /\ resp'.req.password = ADMIN_PASS
               ELSE resp'.route = "logout"]_vars
    /\ [][resp'.route = "login" /\ resp'.req.password # ADMIN_PASS =>
            session' = session]_vars

(* C3 witness: while the other client is logged in and hits are stored, a  *)
(* POST /make of a client that is not logged in was redirected to login.   *)
C3_Witness ==
    /\ resp.route = "make" /\ resp.req.method = "POST" /\ ~resp.req.admin
    /\ resp.status = 302 /\ resp.to = "login"
    /\ \E s \in Sessions : s # resp.req.s /\ session[s]
    /\ hits # {}

Min(a, b) == IF a <= b THEN a ELSE b
Reverse(q) == [i \in 1..Len(q) |-> q[Len(q) + 1 - i]]
Take(q, n) == SubSeq(q, 1, n)
Limits == 0..(MaxHits + 1)

(* C4: fetch_hits(limit) returns the min(limit, total) most recently       *)
(* inserted rows, newest first in the order of insertion, whatever their   *)
(* timestamps; the log view shows all rows in reverse insertion order.     *)
C4_FetchNewestFirst ==
    /\ \A limit \in Limits :
          fetch_hits(hits, limit) = Take(Reverse(arrivals), Min(limit, Len(arrivals)))
    /\ fetch_hits(hits, DefaultLimit) = Reverse(arrivals)
    /\ resp.route = "logs" /\ resp.status = 200 =>
          resp.rows = Reverse(Take(arrivals, Len(resp.rows)))

(* C4 witness: the log view showed two rows, the newer one first although  *)
(* its timestamp is the smaller one.                                       *)
C4_Witness ==
    /\ resp.route = "logs" /\ resp.status = 200 /\ Len(resp.rows) = 2
    /\ resp.rows[1].id > resp.rows[2].id
    /\ resp.rows[1].ts < resp.rows[2].ts

(* C8: the hits table is append-only under any interleaving: a step that   *)
(* changes it adds one row whose id is above every id in it and leaves     *)
(* the other rows as they were; ids are distinct; no insert is lost, so    *)
(* two clicks on one doc_ref, also when handled at once, give two rows.    *)
C8_AppendOnly ==
    /\ [][/\ hits \subseteq hits'
          /\ hits' # hits =>
                \E r \in hits' \ hits :
                    /\ hits' = hits \cup {r}
                    /\ \A q \in hits : q.id < r.id]_vars
    /\ [](\A r, q \in hits : r.id = q.id => r = q)
    /\ [](Cardinality(hits) = Len(arrivals))
    /\ [](\A d \in DocRefs : Cardinality(Rows(d)) >= Cardinality(AtRespond(d)))

(* C8 witness: two threads have each inserted the row of a click on the    *)
(* same doc_ref and neither has answered yet.                              *)
C8_Witness ==
    /\ \A w \in Threads : pc[w] = "click_respond" /\ loc[w].req.doc_ref = "d1"
    /\ Cardinality(Rows("d1")) = 2
    /\ \E r, q \in Rows("d1") : r.id # q.id

Served == {"download_generated", "dl_pdf"}
Generated == outdir \ {DB_FILE}

(* C6, as stated: no request to /download_generated or /dl_pdf probes or   *)
(* serves a path outside the output directory.                             *)
C6_PathsStayInsideOutdir ==
    resp.route \in Served /\ resp.status # 429 =>
        Inside(join(OUTDIR, resp.req.name))

(* C7, as stated: /download_generated/{name} for a name that was never     *)
(* written as a generated artifact answers not found.                      *)
C7_UnwrittenNameIsNotFound ==
    /\ resp.route = "download_generated" /\ resp.status # 429
    /\ resp.req.name \notin Generated
    => resp.status = 404

(* C9: the PNG is written before the PDF is built: whenever                *)
(* document_{id}.pdf is in the output directory document_{id}.png is too,  *)
(* and a request that is at the PDF build step has its PNG on disk.        *)
C9_PngBeforePdf ==
    /\ \A d \in DocRefs : pdf_name(d) \in outdir => fname(d) \in outdir
    /\ \A w \in Threads : pc[w] = "make_pdf" => fname(loc[w].req.doc_ref) \in outdir

(* C9 witness: a POST /make succeeded and its PDF is in the directory.     *)
C9_Witness ==
    /\ resp.route = "make" /\ resp.status = 200 /\ resp.req.doc_ref # NULL
    /\ pdf_name(resp.req.doc_ref) \in outdir

Delivery == {"click", "dl_pdf", "download_generated"}

(* C10, as stated: operations are atomic: the PNG and the PDF of a         *)
(* document are always both present or both absent, a failed POST /make    *)
(* leaves neither, a successful one leaves both, and a delivery request    *)
(* that ends in an error or in not found has added no hit row.             *)
C10_OperationsAreAtomic ==
    /\ \A d \in DocRefs : fname(d) \in outdir <=> pdf_name(d) \in outdir
    /\ resp.route = "make" /\ resp.status = 500 /\ resp.req.doc_ref # NULL =>
          /\ fname(resp.req.doc_ref) \notin outdir
          /\ pdf_name(resp.req.doc_ref) \notin outdir
    /\ resp.route = "make" /\ resp.status = 200 /\ resp.req.doc_ref # NULL =>
          /\ fname(resp.req.doc_ref) \in outdir
          /\ pdf_name(resp.req.doc_ref) \in outdir
    /\ resp.route \in Delivery /\ resp.status \in {404, 429, 500} => ~resp.recorded

(* C10, amended: operations are not atomic.  A POST /make whose decoding   *)
(* fails writes nothing; one whose PDF build fails leaves the PNG it has   *)
(* written; a successful one leaves both files; no step removes a file.    *)
(* A /dl_pdf request that ends in not found or in an error has already     *)
(* added its hit row; /download_generated and a request answered 429 by    *)
(* the rate limiter add none.                                              *)
C10_PartialResultsRemain ==
    /\ [](resp.route = "make" /\ resp.status = 200 /\ resp.req.doc_ref # NULL =>
            /\ fname(resp.req.doc_ref) \in outdir
            /\ pdf_name(resp.req.doc_ref) \in outdir)
    /\ [](/\ resp.route = "make" /\ resp.status = 500 /\ resp.req.doc_ref # NULL
          /\ resp.req.name = pdf_name(resp.req.doc_ref)
          => fname(resp.req.doc_ref) \in outdir)
    /\ [](resp.route = "dl_pdf" /\ resp.status \in {404, 500} =>
            resp.recorded /\ Rows(resp.req.doc_ref) # {})
    /\ [](resp.route = "download_generated" \/ resp.status = 429 => ~resp.recorded)
    /\ [][outdir \subseteq outdir']_vars
    /\ [][/\ resp' # resp
          /\ \/ resp'.status = 429
             \/ resp'.route = "download_generated"
             \/ resp'.route = "make" /\ resp'.req.doc_ref = NULL
          => hits' = hits /\ outdir' = outdir]_vars

(* C10 witness: a POST /make failed at the PDF build and left the PNG of   *)
(* its document without a PDF.                                             *)
C10_Witness ==
    /\ resp.route = "make" /\ resp.status = 500 /\ resp.req.doc_ref # NULL
    /\ resp.req.name = pdf_name(resp.req.doc_ref)
    /\ fname(resp.req.doc_ref) \in outdir
    /\ pdf_name(resp.req.doc_ref) \notin outdir

====
